---------------------------- MODULE Spec2Model ----------------------------
(***************************************************************************)
(* Secure aggregation with MK-CKKS and pairwise additive masks             *)
(* (Emmaka9/secure_fl).                                                    *)
(*                                                                         *)
(* The model follows the C++ sources: masking.cpp (ECDH layer, mask PRG,   *)
(* GenerateMask), mk_ckks.cpp (KeyGenSingle, Encrypt), client.cpp,         *)
(* server.cpp, the round of run_experiment in main.cpp and the mask        *)
(* summation loop of test_debug.cpp.                                       *)
(*                                                                         *)
(* The external primitives are scaled down, keeping their structure:       *)
(*   - a DCRTPoly in EVALUATION format is a tuple of towers, tower t a     *)
(*     tuple of RingDim residues modulo Moduli[t]; + - * are pointwise;    *)
(*   - the curve group is the multiplicative group modulo Curve.p with     *)
(*     generator Curve.g; ECDH is exponentiation in it;                    *)
(*   - a byte is a digit in base Wire.base; a field element is FieldLen    *)
(*     bytes, big-endian;                                                  *)
(*   - the ChaCha20 keystream is a fixed function of (key, word index).    *)
(***************************************************************************)
EXTENDS Integers, Sequences, FiniteSets, TLC

VARIABLES
    numClients,       \* run_experiment / test_debug: number of clients of the round
    pc,               \* position of the caller in the round
    idx,              \* loop index i of the caller's current loop
    crs_a,            \* the common reference string
    m_keys,           \* Client::m_keys, per client id
    m_ecdhKeys,       \* Client::m_ecdhKeys, per client id
    m_data,           \* Client::m_data, per client id
    allPublicKeys,    \* the directory: client id -> serialized ECDH public key
    m_clientShares,   \* Server::m_clientShares
    server_result,    \* outcome of the last Server::getFinalResult
    lastPrepare,      \* outcome of the last Client::prepareShareForServer
    prepared,         \* per client: what its last successful prepareShareForServer computed
    prgLog,           \* the calls of PRGToDCRTPoly so far: seed and returned ring element
    masks,            \* test_debug: the masks generated so far, in order
    sum_of_masks,     \* test_debug: running sum of the masks
    shareParams,      \* the ring parameters (m_params) of the elements of each collected share
    lastCall          \* the last call of a masking.cpp primitive and how it ended

vars == << numClients, pc, idx, crs_a, m_keys, m_ecdhKeys, m_data, allPublicKeys,
           m_clientShares, server_result, lastPrepare, prepared, prgLog, masks,
           sum_of_masks, shareParams, lastCall >>

---------------------------------------------------------------------------
(* Bounds of the model *)

\* largest number of clients in a round
MaxClients == 3

\* ring dimension N (coefficients per tower)
RingDim == 2

\* bytes of a serialized field element (curve coordinate, shared secret)
FieldLen == 3

\* bytes of the stream-cipher key (unsigned char key[32], scaled down)
KeyLen == 2

\* RNS moduli q_t, one per tower
Moduli == << 3, 5 >>

\* the curve group and its generator
Curve == [p |-> 23, g |-> 5]

\* byte base, the SubjectPublicKeyInfo header byte, the keystream word range
Wire == [base |-> 4, spki |-> 3, wordMod |-> 16]

\* ECDH private scalars a key generation may draw
ScalarChoices == {1, 2, 3, 7}

---------------------------------------------------------------------------
(* Results of operations that may throw *)

Ok(v) == [ok |-> TRUE, val |-> v]

Err(what) == [ok |-> FALSE, val |-> what]

---------------------------------------------------------------------------
(* Ring primitive: DCRTPoly in EVALUATION format *)

NumTowers == Len(Moduli)

Towers == 1 .. NumTowers

Slots == 1 .. RingDim

ZeroPoly == [t \in Towers |-> [j \in Slots |-> 0]]

PolyAdd(a, b) == [t \in Towers |-> [j \in Slots |-> (a[t][j] + b[t][j]) % Moduli[t]]]

PolySub(a, b) ==
    [t \in Towers |-> [j \in Slots |-> (a[t][j] + Moduli[t] - b[t][j]) % Moduli[t]]]

PolyNegate(a) == [t \in Towers |-> [j \in Slots |-> (Moduli[t] - a[t][j]) % Moduli[t]]]

PolyMul(a, b) == [t \in Towers |-> [j \in Slots |-> (a[t][j] * b[t][j]) % Moduli[t]]]

IsPoly(a) ==
    /\ DOMAIN a = Towers
    /\ \A t \in Towers : DOMAIN a[t] = Slots /\ \A j \in Slots : a[t][j] \in 0 .. (Moduli[t] - 1)

---------------------------------------------------------------------------
(* ECDH layer *)

RECURSIVE ModExp(_, _, _)
ModExp(b, e, m) == IF e = 0 THEN 1 % m ELSE (b * ModExp(b, e - 1, m)) % m

\* big-endian bytes of a field element, FieldLen of them
ToBytes(v) == [k \in 1 .. FieldLen |-> (v \div (Wire.base ^ (FieldLen - k))) % Wire.base]

RECURSIVE FromBytes(_)
FromBytes(bytes) ==
    IF bytes = << >> THEN 0
    ELSE FromBytes(SubSeq(bytes, 1, Len(bytes) - 1)) * Wire.base + bytes[Len(bytes)]

\* a SafePKey holding nothing (a default-constructed unique_ptr)
NullKey == [priv |-> 0, pub |-> 0]

GenerateECDHKeys(d) == [priv |-> d, pub |-> ModExp(Curve.g, d, Curve.p)]

SerializePublicKey(keys) ==
    IF keys.pub = 0 THEN Err("Failed to serialize public key")
    ELSE Ok(<< Wire.spki >> \o ToBytes(keys.pub))

DeserializePublicKey(pubKeyBytes) ==
    IF /\ Len(pubKeyBytes) = 1 + FieldLen
       /\ pubKeyBytes[1] = Wire.spki
       /\ FromBytes(Tail(pubKeyBytes)) \in 1 .. (Curve.p - 1)
    THEN Ok([priv |-> 0, pub |-> FromBytes(Tail(pubKeyBytes))])
    ELSE Err("Failed to deserialize public key")

\* derives with the public half of the caller's own key pair
ComputeSharedSecret_OwnPublic(myKeys, peerPubKey) ==
    IF myKeys.priv = 0 THEN Err("Failed to create EVP_PKEY_CTX for derivation")
    ELSE IF peerPubKey.pub = 0 THEN Err("Failed to set peer public key")
    ELSE Ok(ToBytes(ModExp(peerPubKey.pub, myKeys.pub, Curve.p)))

ComputeSharedSecret(myKeys, peerPubKey) ==
    IF myKeys.priv = 0 THEN Err("Failed to create EVP_PKEY_CTX for derivation")
    ELSE IF peerPubKey.pub = 0 THEN Err("Failed to set peer public key")
    ELSE Ok(ToBytes(ModExp(peerPubKey.pub, myKeys.priv, Curve.p)))

---------------------------------------------------------------------------
(* Mask PRG *)

\* every byte of the seed is folded into the key
CipherKey_FoldsSeed(seed) ==
    [b \in 1 .. KeyLen |->
        LET RECURSIVE Fold(_)
            Fold(k) == IF k > Len(seed) THEN 0 ELSE seed[k] + Fold(k + KeyLen)
        IN  Fold(b) % Wire.base]

\* key[32] = {0}, then the first min(seed.size(), 32) bytes of the seed
CipherKey(seed) == [b \in 1 .. KeyLen |-> IF b <= Len(seed) THEN seed[b] ELSE 0]

\* word number k (from 0) of the keystream of `key` under the all-zero iv,
\* the cipher context starting at word `start`
KeystreamWord(key, start, k) ==
    LET kv == FromBytes(key)
        n  == start + k
    IN  ((kv + 1) * (2 * n + 3) + 5 * kv * kv + n * n) % Wire.wordMod

\* a context used by every call, its position never reset
PRGToDCRTPoly_SharedCtx(seed) ==
    [t \in Towers |-> [j \in Slots |->
        KeystreamWord(CipherKey(seed), Len(prgLog) * NumTowers * RingDim,
                      (t - 1) * RingDim + (j - 1)) % Moduli[t]]]

\* random_bytes after EVP_EncryptUpdate, read as words: NumTowers * RingDim of
\* them, numbered from 0
random_uints(seed) ==
    [k \in 0 .. (NumTowers * RingDim - 1) |-> KeystreamWord(CipherKey(seed), 0, k)]

\* uints_offset is never advanced: every tower reads the first RingDim words
PRGToDCRTPoly_NoOffset(seed) ==
    LET RECURSIVE TowerLoop(_, _, _)
        TowerLoop(i, uints_offset, random_poly) ==
            IF i > NumTowers THEN random_poly
            ELSE LET tower_vec ==
                         [j \in Slots |-> random_uints(seed)[uints_offset + (j - 1)] % Moduli[i]]
                 IN  TowerLoop(i + 1, uints_offset, [random_poly EXCEPT ![i] = tower_vec])
    IN  TowerLoop(1, 0, ZeroPoly)

\* for each tower i: tower_vec[j] = random_uints[uints_offset + j] % modulus,
\* then uints_offset += GetRingDimension()
PRGToDCRTPoly(seed) ==
    LET RECURSIVE TowerLoop(_, _, _)
        TowerLoop(i, uints_offset, random_poly) ==
            IF i > NumTowers THEN random_poly
            ELSE LET tower_vec ==
                         [j \in Slots |-> random_uints(seed)[uints_offset + (j - 1)] % Moduli[i]]
                 IN  TowerLoop(i + 1, uints_offset + RingDim,
                               [random_poly EXCEPT ![i] = tower_vec])
    IN  TowerLoop(1, 0, ZeroPoly)

---------------------------------------------------------------------------
(* Masking engine *)

\* the keys of a std::map in iteration (ascending) order
RECURSIVE SortedKeys(_)
SortedKeys(S) ==
    IF S = {} THEN << >>
    ELSE LET lo == CHOOSE x \in S : \A y \in S : x <= y
         IN  << lo >> \o SortedKeys(S \ {lo})

\* p_ij as client myId derives it from the directory entry of peerId
PairPoly(myKeys, entry) ==
    LET peerPubKey == DeserializePublicKey(entry)
    IN  IF ~peerPubKey.ok THEN peerPubKey
        ELSE LET sharedSecret == ComputeSharedSecret(myKeys, peerPubKey.val)
             IN  IF ~sharedSecret.ok THEN sharedSecret
                 ELSE Ok(PRGToDCRTPoly(sharedSecret.val))

\* every peer gets +p_ij
ApplySign_AlwaysAdd(myId, peerId, final_mask, p_ij) == PolyAdd(final_mask, p_ij)

ApplySign(myId, peerId, final_mask, p_ij) ==
    IF myId < peerId THEN PolySub(final_mask, p_ij) ELSE PolyAdd(final_mask, p_ij)

\* the loop without `if (myId == peerId) continue;`
GenerateMask_NoSelfSkip(myId, myKeys, directory) ==
    LET ids == SortedKeys(DOMAIN directory)
        RECURSIVE Loop(_, _)
        Loop(k, final_mask) ==
            IF k > Len(ids) THEN Ok(final_mask)
            ELSE LET p_ij == PairPoly(myKeys, directory[ids[k]])
                 IN  IF ~p_ij.ok THEN p_ij
                     ELSE Loop(k + 1, ApplySign(myId, ids[k], final_mask, p_ij.val))
    IN  Loop(1, ZeroPoly)

\* a peer entry that does not parse is skipped
GenerateMask_SkipUnparsable(myId, myKeys, directory) ==
    LET ids == SortedKeys(DOMAIN directory)
        RECURSIVE Loop(_, _)
        Loop(k, final_mask) ==
            IF k > Len(ids) THEN Ok(final_mask)
            ELSE IF myId = ids[k] THEN Loop(k + 1, final_mask)
            ELSE LET p_ij == PairPoly(myKeys, directory[ids[k]])
                 IN  IF ~p_ij.ok THEN Loop(k + 1, final_mask)
                     ELSE Loop(k + 1, ApplySign(myId, ids[k], final_mask, p_ij.val))
    IN  Loop(1, ZeroPoly)

GenerateMask(myId, myKeys, directory) ==
    LET ids == SortedKeys(DOMAIN directory)
        RECURSIVE Loop(_, _)
        Loop(k, final_mask) ==
            IF k > Len(ids) THEN Ok(final_mask)
            ELSE IF myId = ids[k] THEN Loop(k + 1, final_mask)
            ELSE LET p_ij == PairPoly(myKeys, directory[ids[k]])
                 IN  IF ~p_ij.ok THEN p_ij
                     ELSE Loop(k + 1, ApplySign(myId, ids[k], final_mask, p_ij.val))
    IN  Loop(1, ZeroPoly)

\* the PRGToDCRTPoly calls GenerateMask makes, in order: seed and output of each
PRGCalls(myId, myKeys, directory) ==
    LET ids == SortedKeys(DOMAIN directory)
        RECURSIVE Loop(_, _)
        Loop(k, calls) ==
            IF k > Len(ids) THEN calls
            ELSE IF myId = ids[k] THEN Loop(k + 1, calls)
            ELSE LET peerPubKey == DeserializePublicKey(directory[ids[k]])
                 IN  IF ~peerPubKey.ok THEN calls
                     ELSE LET sharedSecret == ComputeSharedSecret(myKeys, peerPubKey.val)
                          IN  IF ~sharedSecret.ok THEN calls
                              ELSE Loop(k + 1, Append(calls,
                                   [seed |-> sharedSecret.val,
                                    poly |-> PRGToDCRTPoly(sharedSecret.val)]))
    IN  Loop(1, << >>)

---------------------------------------------------------------------------
(* test_debug.cpp: generate the ECDH keys, then sum the masks *)

ClientIds == 0 .. (numClients - 1)

NoShare == [c0 |-> ZeroPoly, d_masked |-> ZeroPoly]

\* the ring parameters of the crypto context cc: ring dimension and tower moduli
CcParams == [ringDim |-> RingDim, moduli |-> Moduli]

\* no primitive has been called yet
NoCall == [fn |-> "none", failed |-> FALSE, ok |-> TRUE, handles |-> 0, arg |-> << >>,
           val |-> << >>]

InitCommon ==
    /\ idx = 0
    /\ m_keys = << >>
    /\ m_ecdhKeys = << >>
    /\ m_data = << >>
    /\ allPublicKeys = << >>
    /\ m_clientShares = << >>
    /\ server_result = [status |-> "none", finalPoly |-> ZeroPoly, collected |-> 0]
    /\ lastPrepare = [status |-> "none", client |-> 0, share |-> NoShare]
    /\ prepared = << >>
    /\ prgLog = << >>
    /\ masks = << >>
    /\ sum_of_masks = ZeroPoly
    /\ shareParams = << >>
    /\ lastCall = NoCall

InitMask ==
    /\ numClients \in 1 .. MaxClients
    /\ pc = "debug_keys"
    /\ crs_a = ZeroPoly
    /\ InitCommon

\* for (i < numClients) { client_ecdh_keys.push_back(GenerateECDHKeys());
\*                        allPublicKeys[i] = SerializePublicKey(client_ecdh_keys[i]); }
DebugKeyStep ==
    /\ pc = "debug_keys"
    /\ idx < numClients
    /\ \E d \in ScalarChoices :
         LET keys == GenerateECDHKeys(d) IN
         /\ m_ecdhKeys' = (idx :> keys) @@ m_ecdhKeys
         /\ allPublicKeys' = (idx :> SerializePublicKey(keys).val) @@ allPublicKeys
    /\ idx' = IF idx + 1 = numClients THEN 0 ELSE idx + 1
    /\ pc' = IF idx + 1 = numClients THEN "debug_masks" ELSE pc
    /\ UNCHANGED << numClients, crs_a, m_keys, m_data, m_clientShares, server_result,
                    lastPrepare, prepared, prgLog, masks, sum_of_masks, shareParams,
                    lastCall >>

\* for (i < numClients) { mask = GenerateMask(i, keys[i], allPublicKeys, cc);
\*                        sum_of_masks += mask; }
DebugMaskStep ==
    /\ pc = "debug_masks"
    /\ idx < numClients
    /\ LET mask == GenerateMask(idx, m_ecdhKeys[idx], allPublicKeys) IN
       /\ mask.ok
       /\ masks' = Append(masks, mask.val)
       /\ sum_of_masks' = PolyAdd(sum_of_masks, mask.val)
    /\ prgLog' = prgLog \o PRGCalls(idx, m_ecdhKeys[idx], allPublicKeys)
    /\ idx' = idx + 1
    /\ pc' = IF idx + 1 = numClients THEN "debug_done" ELSE pc
    /\ UNCHANGED << numClients, crs_a, m_keys, m_ecdhKeys, m_data, allPublicKeys,
                    m_clientShares, server_result, lastPrepare, prepared, shareParams,
                    lastCall >>

NextMask == DebugKeyStep \/ DebugMaskStep

SpecMask == InitMask /\ [][NextMask]_vars

---------------------------------------------------------------------------
(* MK-CKKS engine *)

\* length of a client's data vector (dataSize <= N/2)
DataSize == IF RingDim \div 2 >= 1 THEN RingDim \div 2 ELSE 1

\* a ring element with residues a, a + b, a + 2b, ... in every tower
MkPoly(a, b) == [t \in Towers |-> [j \in Slots |-> (a + b * (j - 1)) % Moduli[t]]]

\* the packed encoder: slot k carries the scaled k-th entry, the other slots 0
encodeVector(vec) ==
    [t \in Towers |-> [j \in Slots |->
        IF j <= Len(vec) THEN (2 * vec[j]) % Moduli[t] ELSE 0]]

\* s_i and e_i are the two discrete-Gaussian samples
KeyGenSingle(a, s_i, e_i) ==
    [pk |-> [b |-> PolyAdd(PolyMul(PolyNegate(s_i), a), e_i), a |-> a],
     sk |-> [s |-> s_i]]

\* the second component is the raw intermediate c1 = v * a + e1
Encrypt_RawC1(pk, sk, m, v, e0, e1, e_star) ==
    [c0 |-> PolyAdd(PolyAdd(PolyMul(v, pk.b), m), e0),
     c1 |-> PolyAdd(PolyMul(v, pk.a), e1)]

\* v, e0, e1 are the discrete-Gaussian samples, e_star the large-variance one
Encrypt(pk, sk, m, v, e0, e1, e_star) ==
    LET intermediate_c1 == PolyAdd(PolyMul(v, pk.a), e1)
    IN  [c0 |-> PolyAdd(PolyAdd(PolyMul(v, pk.b), m), e0),
         c1 |-> PolyAdd(PolyMul(intermediate_c1, sk.s), e_star)]

---------------------------------------------------------------------------
(* Client and Server *)

\* a default-constructed MKeyGenKeyPair
NoKeyPair == [pk |-> [b |-> ZeroPoly, a |-> ZeroPoly], sk |-> [s |-> ZeroPoly]]

\* the mask is computed and never added
prepareShareForServer_Unmasked(id, keys, ecdhKeys, data, directory, r) ==
    LET encoded_poly == encodeVector(data)
        ciphertext   == Encrypt(keys.pk, keys.sk, encoded_poly, r.v, r.e0, r.e1, r.e_star)
        mask         == GenerateMask(id, ecdhKeys, directory)
    IN  IF ~mask.ok THEN mask
        ELSE Ok([c0 |-> ciphertext.c0, d_masked |-> ciphertext.c1])

\* the mask is added to both components
prepareShareForServer_MaskedC0(id, keys, ecdhKeys, data, directory, r) ==
    LET encoded_poly == encodeVector(data)
        ciphertext   == Encrypt(keys.pk, keys.sk, encoded_poly, r.v, r.e0, r.e1, r.e_star)
        mask         == GenerateMask(id, ecdhKeys, directory)
    IN  IF ~mask.ok THEN mask
        ELSE Ok([c0 |-> PolyAdd(ciphertext.c0, mask.val),
                 d_masked |-> PolyAdd(ciphertext.c1, mask.val)])

\* Client::prepareShareForServer with the samples `r` its Encrypt draws
prepareShareForServer(id, keys, ecdhKeys, data, directory, r) ==
    LET encoded_poly == encodeVector(data)
        ciphertext   == Encrypt(keys.pk, keys.sk, encoded_poly, r.v, r.e0, r.e1, r.e_star)
        mask         == GenerateMask(id, ecdhKeys, directory)
    IN  IF ~mask.ok THEN mask
        ELSE Ok([c0 |-> ciphertext.c0, d_masked |-> PolyAdd(ciphertext.c1, mask.val)])

\* Client::getECDHPublicKey
getECDHPublicKey(ecdhKeys) == SerializePublicKey(ecdhKeys)

\* a share equal to one already collected is dropped
collectShare_Dedup(shares, share) ==
    IF \E k \in 1 .. Len(shares) : shares[k] = share THEN shares ELSE Append(shares, share)

\* Server::collectShare
collectShare(shares, share) == Append(shares, share)

\* the sum loop of aggregateShares over one component of the shares
RECURSIVE SumFrom(_, _, _, _)
SumFrom(shares, field, i, acc) ==
    IF i > Len(shares) THEN acc
    ELSE SumFrom(shares, field, i + 1, PolyAdd(acc, shares[i][field]))

\* the second sum starts from the first share's c0
aggregateShares_WrongStart(shares) ==
    IF shares = << >> THEN Err("No client shares to aggregate.")
    ELSE LET result_c0       == SumFrom(shares, "c0", 2, shares[1].c0)
             result_d_masked == SumFrom(shares, "d_masked", 2, shares[1].c0)
         IN  Ok(PolyAdd(result_c0, result_d_masked))

\* no check for an empty accumulator
aggregateShares_NoEmptyCheck(shares) ==
    LET result_c0       == SumFrom(shares, "c0", 1, ZeroPoly)
        result_d_masked == SumFrom(shares, "d_masked", 1, ZeroPoly)
    IN  Ok(PolyAdd(result_c0, result_d_masked))

\* both sum loops stop one share early
aggregateShares_SkipsLast(shares) ==
    IF shares = << >> THEN Err("No client shares to aggregate.")
    ELSE LET most            == SubSeq(shares, 1, IF Len(shares) > 1 THEN Len(shares) - 1 ELSE 1)
             result_c0       == SumFrom(most, "c0", 2, shares[1].c0)
             result_d_masked == SumFrom(most, "d_masked", 2, shares[1].d_masked)
         IN  Ok(PolyAdd(result_c0, result_d_masked))

\* Server::aggregateShares
aggregateShares(shares) ==
    IF shares = << >> THEN Err("No client shares to aggregate.")
    ELSE LET result_c0       == SumFrom(shares, "c0", 2, shares[1].c0)
             result_d_masked == SumFrom(shares, "d_masked", 2, shares[1].d_masked)
         IN  Ok(PolyAdd(result_c0, result_d_masked))

\* Server::getFinalResult: the aggregated polynomial handed to Decode, or the
\* error aggregateShares throws; `collected` is the accumulator's length at the call
getFinalResult(shares) ==
    LET finalPoly == aggregateShares(shares)
    IN  IF finalPoly.ok
        THEN [status |-> "ok", finalPoly |-> finalPoly.val, collected |-> Len(shares)]
        ELSE [status |-> "error", finalPoly |-> ZeroPoly, collected |-> Len(shares)]

---------------------------------------------------------------------------
(* run_experiment: one round *)

\* the uniform samples GenerateCRS may return
CrsChoices == {MkPoly(2, 1), MkPoly(1, 2)}

\* what a client's key generation may draw: s, e (Gaussian) and the ECDH scalar d
KeyGenDraws ==
    { [s |-> MkPoly(1, 0), e |-> MkPoly(0, 1), d |-> 2],
      [s |-> MkPoly(2, 1), e |-> MkPoly(1, 0), d |-> 3],
      [s |-> MkPoly(1, 1), e |-> MkPoly(0, 0), d |-> 7] }

\* what a client's data generation and Encrypt may draw
ShareDraws ==
    { [x |-> [k \in 1 .. DataSize |-> 1], v |-> MkPoly(1, 0), e0 |-> MkPoly(0, 1),
       e1 |-> MkPoly(1, 1), e_star |-> MkPoly(2, 0)],
      [x |-> [k \in 1 .. DataSize |-> 2], v |-> MkPoly(1, 1), e0 |-> MkPoly(1, 0),
       e1 |-> MkPoly(0, 0), e_star |-> MkPoly(1, 2)],
      [x |-> [k \in 1 .. DataSize |-> 0], v |-> MkPoly(2, 1), e0 |-> MkPoly(0, 0),
       e1 |-> MkPoly(0, 1), e_star |-> MkPoly(3, 1)] }

\* serialized keys that do not parse: empty, wrong header, not a group element
GarbledKeys == { << >>, << 0 >> \o ToBytes(1), << Wire.spki >> \o ToBytes(0) }

Init ==
    /\ numClients \in 0 .. MaxClients
    /\ pc = "keygen"
    /\ crs_a \in CrsChoices
    /\ InitCommon

\* clients.emplace_back(i); clients[i].generateKeys(cc, crs_a);
KeyGenStep ==
    /\ pc = "keygen"
    /\ idx < numClients
    /\ \E r \in KeyGenDraws :
         /\ m_keys' = (idx :> KeyGenSingle(crs_a, r.s, r.e)) @@ m_keys
         /\ m_ecdhKeys' = (idx :> GenerateECDHKeys(r.d)) @@ m_ecdhKeys
    /\ idx' = idx + 1
    /\ UNCHANGED << numClients, pc, crs_a, m_data, allPublicKeys, m_clientShares,
                    server_result, lastPrepare, prepared, prgLog, masks, sum_of_masks,
                    shareParams, lastCall >>

\* the directory run_experiment builds from the clients' getECDHPublicKey()
HonestDirectory == [i \in ClientIds |-> getECDHPublicKey(m_ecdhKeys[i]).val]

\* for (client : clients) allPublicKeys[client.getId()] = client.getECDHPublicKey();
CollectDirectory ==
    /\ pc = "keygen"
    /\ idx = numClients
    /\ allPublicKeys' = HonestDirectory
    /\ pc' = "stream"
    /\ idx' = 0
    /\ UNCHANGED << numClients, crs_a, m_keys, m_ecdhKeys, m_data, m_clientShares,
                    server_result, lastPrepare, prepared, prgLog, masks, sum_of_masks,
                    shareParams, lastCall >>

\* clients[i].generateData(...); client_result = clients[i].prepareShareForServer(cc,
\* allPublicKeys); server.collectShare(client_result.share);
\* an exception leaves run_experiment (and main, which catches nothing)
StreamStep ==
    /\ pc = "stream"
    /\ idx < numClients
    /\ \E r \in ShareDraws :
         LET result == prepareShareForServer(idx, m_keys[idx], m_ecdhKeys[idx], r.x,
                                             allPublicKeys, r)
             ct     == Encrypt(m_keys[idx].pk, m_keys[idx].sk, encodeVector(r.x),
                               r.v, r.e0, r.e1, r.e_star)
             mask   == GenerateMask(idx, m_ecdhKeys[idx], allPublicKeys)
         IN  /\ m_data' = (idx :> r.x) @@ m_data
             /\ IF result.ok
                THEN /\ m_clientShares' = collectShare(m_clientShares, result.val)
                     /\ shareParams' = Append(shareParams, CcParams)
                     /\ lastPrepare' = [status |-> "ok", client |-> idx, share |-> result.val]
                     /\ prepared' = (idx :> [c0 |-> ct.c0, d |-> ct.c1, mask |-> mask.val,
                                             draw |-> r]) @@ prepared
                     /\ idx' = idx + 1
                     /\ pc' = pc
                ELSE /\ lastPrepare' = [status |-> "error", client |-> idx, share |-> NoShare]
                     /\ pc' = "aborted"
                     /\ UNCHANGED << m_clientShares, shareParams, prepared, idx >>
    /\ prgLog' = prgLog \o PRGCalls(idx, m_ecdhKeys[idx], allPublicKeys)
    /\ UNCHANGED << numClients, crs_a, m_keys, m_ecdhKeys, allPublicKeys, server_result,
                    masks, sum_of_masks, lastCall >>

\* getFinalResult is called when the last client's share is still missing
Finalize_BeforeLastShare ==
    /\ pc = "stream"
    /\ idx + 1 >= numClients
    /\ server_result' = getFinalResult(m_clientShares)
    /\ pc' = IF server_result'.status = "ok" THEN "done" ELSE "aborted"
    /\ UNCHANGED << numClients, idx, crs_a, m_keys, m_ecdhKeys, m_data, allPublicKeys,
                    m_clientShares, lastPrepare, prepared, prgLog, masks, sum_of_masks,
                    shareParams, lastCall >>

\* server_result = server.getFinalResult(cc, dataSize);
Finalize ==
    /\ pc = "stream"
    /\ idx = numClients
    /\ server_result' = getFinalResult(m_clientShares)
    /\ pc' = IF server_result'.status = "ok" THEN "done" ELSE "aborted"
    /\ UNCHANGED << numClients, idx, crs_a, m_keys, m_ecdhKeys, m_data, allPublicKeys,
                    m_clientShares, lastPrepare, prepared, prgLog, masks, sum_of_masks,
                    shareParams, lastCall >>

Next == KeyGenStep \/ CollectDirectory \/ StreamStep \/ Finalize

Spec == Init /\ [][Next]_vars

---------------------------------------------------------------------------
(* The round when the directory handed to prepareShareForServer is not the one
   run_experiment builds: one entry may be missing or may not parse *)

DirectoryViews(directory) ==
    {directory}
    \cup { [i \in (DOMAIN directory) \ {j} |-> directory[i]] : j \in DOMAIN directory }
    \cup { [directory EXCEPT ![j] = g] : j \in DOMAIN directory, g \in GarbledKeys }

\* the clients' keys are collected as in run_experiment; the caller of
\* prepareShareForServer passes one of the views of that directory
ReceiveDirectory ==
    /\ pc = "keygen"
    /\ idx = numClients
    /\ allPublicKeys' \in DirectoryViews(HonestDirectory)
    /\ pc' = "stream"
    /\ idx' = 0
    /\ UNCHANGED << numClients, crs_a, m_keys, m_ecdhKeys, m_data, m_clientShares,
                    server_result, lastPrepare, prepared, prgLog, masks, sum_of_masks,
                    shareParams, lastCall >>

NextDirectory == KeyGenStep \/ ReceiveDirectory \/ StreamStep \/ Finalize

SpecDirectory == Init /\ [][NextDirectory]_vars

---------------------------------------------------------------------------
(* Clients that prepare more than one share with the keys and the directory of
   one key generation: any client, any number of times, fresh data and fresh
   encryption randomness each time *)

\* largest number of prepareShareForServer calls after one key generation
MaxPrepares == 2

\* the data and encryption randomness of repeated prepares: the draws with non-zero data
ReuseDraws == { r \in ShareDraws : r.x[1] > 0 }

\* clients[i].generateData(...); clients[i].prepareShareForServer(cc, allPublicKeys);
\* server.collectShare(client_result.share); `masks` logs d_masked - c1 of each share;
\* the loop index never goes back, and a client may prepare again before it advances
PrepareStep ==
    /\ pc = "stream"
    /\ Len(masks) < MaxPrepares
    /\ \E i \in ClientIds, r \in ReuseDraws :
         LET result == prepareShareForServer(i, m_keys[i], m_ecdhKeys[i], r.x,
                                             allPublicKeys, r)
             ct     == Encrypt(m_keys[i].pk, m_keys[i].sk, encodeVector(r.x),
                               r.v, r.e0, r.e1, r.e_star)
             mask   == GenerateMask(i, m_ecdhKeys[i], allPublicKeys)
         IN  /\ i >= idx
             /\ result.ok
             /\ idx' = i
             /\ m_data' = (i :> r.x) @@ m_data
             /\ m_clientShares' = collectShare(m_clientShares, result.val)
             /\ shareParams' = Append(shareParams, CcParams)
             /\ lastPrepare' = [status |-> "ok", client |-> i, share |-> result.val]
             /\ prepared' = (i :> [c0 |-> ct.c0, d |-> ct.c1, mask |-> mask.val,
                                     draw |-> r]) @@ prepared
             /\ masks' = Append(masks, PolySub(result.val.d_masked, ct.c1))
             /\ prgLog' = prgLog \o PRGCalls(i, m_ecdhKeys[i], allPublicKeys)
    /\ UNCHANGED << numClients, pc, crs_a, m_keys, m_ecdhKeys, allPublicKeys,
                    server_result, sum_of_masks, lastCall >>

NextReuse == KeyGenStep \/ CollectDirectory \/ PrepareStep

SpecReuse == Init /\ [][NextReuse]_vars

---------------------------------------------------------------------------
(* The Server on its own: any caller, any shares, any order *)

\* largest number of shares a caller hands to one Server
MaxShares == 3

\* the ring elements a share handed to collectShare may hold
ShareElements == {ZeroPoly, MkPoly(1, 0), MkPoly(1, 1)}

ShareInputs == [c0 : ShareElements, d_masked : ShareElements]

InitServer ==
    /\ numClients = 0
    /\ pc = "server"
    /\ crs_a = ZeroPoly
    /\ InitCommon

\* server.collectShare(share)
CollectShare ==
    /\ pc = "server"
    /\ Len(m_clientShares) < MaxShares
    /\ \E share \in ShareInputs : m_clientShares' = collectShare(m_clientShares, share)
    /\ shareParams' = Append(shareParams, CcParams)
    /\ UNCHANGED << numClients, pc, idx, crs_a, m_keys, m_ecdhKeys, m_data, allPublicKeys,
                    server_result, lastPrepare, prepared, prgLog, masks, sum_of_masks,
                    lastCall >>

\* server.getFinalResult(cc, dataSize)
GetFinalResult ==
    /\ pc = "server"
    /\ server_result' = getFinalResult(m_clientShares)
    /\ UNCHANGED << numClients, pc, idx, crs_a, m_keys, m_ecdhKeys, m_data, allPublicKeys,
                    m_clientShares, lastPrepare, prepared, prgLog, masks, sum_of_masks,
                    shareParams, lastCall >>

NextServer == CollectShare \/ GetFinalResult

SpecServer == InitServer /\ [][NextServer]_vars

---------------------------------------------------------------------------
(* The Server when the collected ring elements may carry other ring parameters
   than the crypto context cc handed to getFinalResult *)

\* parameters of another crypto context: same ring dimension and tower count,
\* another modulus in the last tower
OtherParams == [ringDim |-> RingDim, moduli |-> [Moduli EXCEPT ![NumTowers] = 7]]

ParamChoices == {CcParams, OtherParams}

\* what the ring library's operator+= (aggregateShares) and Decrypt (Decode) do
\* with operands of different parameters: the build either checks and throws
\* or adds the residue vectors without a check
OperandChecks == {"checked", "unchecked"}

\* the shares handed to collectShare in this setting
ParamShareInputs == [c0 : {MkPoly(1, 0)}, d_masked : ShareElements]

\* Server::getFinalResult(cc, dataSize) over shares whose elements carry the
\* parameters `params`; server.cpp itself compares no parameters
getFinalResultParams(shares, params, lib) ==
    IF \A k \in 1 .. Len(shares) : params[k] = CcParams THEN getFinalResult(shares)
    ELSE IF lib = "checked"
         THEN [status |-> "error", finalPoly |-> ZeroPoly, collected |-> Len(shares)]
         ELSE [status |-> "ok", finalPoly |-> aggregateShares(shares).val,
               collected |-> Len(shares)]

\* server.collectShare(share), the share built under any parameters
CollectShareAnyParams ==
    /\ pc = "server"
    /\ Len(m_clientShares) < MaxShares
    /\ \E share \in ParamShareInputs, params \in ParamChoices :
         /\ m_clientShares' = collectShare(m_clientShares, share)
         /\ shareParams' = Append(shareParams, params)
    /\ UNCHANGED << numClients, pc, idx, crs_a, m_keys, m_ecdhKeys, m_data, allPublicKeys,
                    server_result, lastPrepare, prepared, prgLog, masks, sum_of_masks,
                    lastCall >>

\* server.getFinalResult(cc, dataSize)
GetFinalResultAnyParams ==
    /\ pc = "server"
    /\ \E lib \in OperandChecks :
         server_result' = getFinalResultParams(m_clientShares, shareParams, lib)
    /\ UNCHANGED << numClients, pc, idx, crs_a, m_keys, m_ecdhKeys, m_data, allPublicKeys,
                    m_clientShares, lastPrepare, prepared, prgLog, masks, sum_of_masks,
                    shareParams, lastCall >>

NextParams == CollectShareAnyParams \/ GetFinalResultAnyParams

SpecParams == InitServer /\ [][NextParams]_vars

---------------------------------------------------------------------------
(* The primitives of masking.cpp under any outcome of the library calls they
   make: which call reports failure, whether the std::vector the function
   allocates throws std::bad_alloc *)

\* size_t and the largest std::vector, scaled down
SizeT == [mod |-> 256, max_size |-> 127]

\* `fail`: the number of the library call of the function that reports failure
\* (NULL, 0 or negative return), 0 when none does; `alloc`: the allocation of
\* the function's std::vector fails
LibOutcomes == [fail : 0 .. 5, alloc : BOOLEAN]

\* what using a NULL cipher context does inside the library: the process
\* traps, or every call on it reports failure
NullContextUse == {"trap", "reported"}

\* the seeds handed to PRGToDCRTPoly: byte strings of up to KeyLen + 1 bytes
SeedBytes == {0, Wire.base - 1}

SeedInputs == UNION { [1 .. n -> SeedBytes] : n \in 0 .. (KeyLen + 1) }

\* how a call ended: `failed` a library call it made reported failure, `ok` it
\* returned a value, `handles` contexts and buffers acquired inside and not released
Exit(fn, arg, failed, ok, handles, val) ==
    [fn |-> fn, arg |-> arg, failed |-> failed, ok |-> ok, handles |-> handles, val |-> val]

\* calls: 1 EVP_PKEY_CTX_new_id, 2 EVP_PKEY_keygen_init,
\* 3 EVP_PKEY_CTX_set_ec_paramgen_curve_nid, 4 EVP_PKEY_keygen
GenerateECDHKeysLib(d, lib) ==
    IF lib.fail = 1 THEN Exit("GenerateECDHKeys", d, TRUE, FALSE, 0, "Failed to create EVP_PKEY_CTX")
    ELSE IF lib.fail \in {2, 3, 4}
         THEN Exit("GenerateECDHKeys", d, TRUE, FALSE, 1 - 1, "Failed to generate key pair")
         ELSE Exit("GenerateECDHKeys", d, FALSE, TRUE, 1 - 1, GenerateECDHKeys(d))

\* call: 1 i2d_PUBKEY, returning the length, 0 for no key, -1 on failure (buf
\* stays NULL); the int is stored in a size_t before `len <= 0` is tested
SerializePublicKeyLib(keys, lib) ==
    LET ret == IF keys.pub = 0 THEN 0 ELSE IF lib.fail = 1 THEN -1 ELSE 1 + FieldLen
        len == ret % SizeT.mod
    IN  IF len <= 0
        THEN Exit("SerializePublicKey", keys, TRUE, FALSE, 0, "Failed to serialize public key")
        ELSE IF len > SizeT.max_size
        THEN Exit("SerializePublicKey", keys, ret <= 0, FALSE, 0, "std::length_error")
        ELSE IF lib.alloc
        THEN Exit("SerializePublicKey", keys, FALSE, FALSE, 1, "std::bad_alloc")
        ELSE Exit("SerializePublicKey", keys, FALSE, TRUE, 1 - 1, SerializePublicKey(keys).val)

\* call: 1 d2i_PUBKEY
DeserializePublicKeyLib(pubKeyBytes, lib) ==
    LET pkey == DeserializePublicKey(pubKeyBytes)
    IN  IF lib.fail = 1 \/ ~pkey.ok
        THEN Exit("DeserializePublicKey", pubKeyBytes, TRUE, FALSE, 0,
                  "Failed to deserialize public key")
        ELSE Exit("DeserializePublicKey", pubKeyBytes, FALSE, TRUE, 0, pkey.val)

\* calls: 1 EVP_PKEY_CTX_new, 2 EVP_PKEY_derive_init, 3 EVP_PKEY_derive_set_peer,
\* 4 EVP_PKEY_derive (length), then std::vector secret(secret_len), 5 EVP_PKEY_derive
ComputeSharedSecretLib(myKeys, peerPubKey, lib) ==
    LET arg    == << myKeys, peerPubKey >>
        secret == ComputeSharedSecret(myKeys, peerPubKey)
    IN  IF lib.fail = 1 \/ myKeys.priv = 0
        THEN Exit("ComputeSharedSecret", arg, TRUE, FALSE, 0,
                  "Failed to create EVP_PKEY_CTX for derivation")
        ELSE IF lib.fail \in {2, 3, 4} \/ ~secret.ok
        THEN Exit("ComputeSharedSecret", arg, TRUE, FALSE, 1 - 1, "Failed to initialize derivation")
        ELSE IF lib.alloc
        THEN Exit("ComputeSharedSecret", arg, FALSE, FALSE, 1, "std::bad_alloc")
        ELSE IF lib.fail = 5
        THEN Exit("ComputeSharedSecret", arg, TRUE, FALSE, 1 - 1, "Failed to derive secret")
        ELSE Exit("ComputeSharedSecret", arg, FALSE, TRUE, 1 - 1, secret.val)

\* calls: 1 EVP_CIPHER_CTX_new, then std::vector random_bytes(total_bytes),
\* 2 EVP_EncryptInit_ex, 3 EVP_EncryptUpdate; no return value is tested, and a
\* keystream that was not produced leaves random_bytes at its initial zeros
PRGToDCRTPolyLib(seed, lib, onNull) ==
    IF lib.alloc
    THEN Exit("PRGToDCRTPoly", seed, lib.fail = 1, FALSE, IF lib.fail = 1 THEN 0 ELSE 1,
              "std::bad_alloc")
    ELSE IF lib.fail = 1 /\ onNull = "trap"
    THEN Exit("PRGToDCRTPoly", seed, TRUE, FALSE, 0, "trap")
    ELSE IF lib.fail \in {1, 2, 3}
    THEN Exit("PRGToDCRTPoly", seed, TRUE, TRUE, IF lib.fail = 1 THEN 0 ELSE 1 - 1, ZeroPoly)
    ELSE Exit("PRGToDCRTPoly", seed, FALSE, TRUE, 1 - 1, PRGToDCRTPoly(seed))

InitCrypto ==
    /\ numClients = 0
    /\ pc = "primitives"
    /\ crs_a = ZeroPoly
    /\ InitCommon

CallGenerateECDHKeys ==
    /\ pc = "primitives"
    /\ \E d \in ScalarChoices, lib \in LibOutcomes : lastCall' = GenerateECDHKeysLib(d, lib)
    /\ UNCHANGED << numClients, pc, idx, crs_a, m_keys, m_ecdhKeys, m_data, allPublicKeys,
                    m_clientShares, server_result, lastPrepare, prepared, prgLog, masks,
                    sum_of_masks, shareParams >>

CallSerializePublicKey ==
    /\ pc = "primitives"
    /\ \E keys \in {GenerateECDHKeys(d) : d \in ScalarChoices} \cup {NullKey},
          lib \in LibOutcomes : lastCall' = SerializePublicKeyLib(keys, lib)
    /\ UNCHANGED << numClients, pc, idx, crs_a, m_keys, m_ecdhKeys, m_data, allPublicKeys,
                    m_clientShares, server_result, lastPrepare, prepared, prgLog, masks,
                    sum_of_masks, shareParams >>

CallDeserializePublicKey ==
    /\ pc = "primitives"
    /\ \E bytes \in {SerializePublicKey(GenerateECDHKeys(d)).val : d \in ScalarChoices}
                      \cup GarbledKeys,
          lib \in LibOutcomes : lastCall' = DeserializePublicKeyLib(bytes, lib)
    /\ UNCHANGED << numClients, pc, idx, crs_a, m_keys, m_ecdhKeys, m_data, allPublicKeys,
                    m_clientShares, server_result, lastPrepare, prepared, prgLog, masks,
                    sum_of_masks, shareParams >>

CallComputeSharedSecret ==
    /\ pc = "primitives"
    /\ \E d, e \in ScalarChoices, lib \in LibOutcomes :
          lastCall' = ComputeSharedSecretLib(GenerateECDHKeys(d),
                          DeserializePublicKey(SerializePublicKey(GenerateECDHKeys(e)).val).val,
                          lib)
    /\ UNCHANGED << numClients, pc, idx, crs_a, m_keys, m_ecdhKeys, m_data, allPublicKeys,
                    m_clientShares, server_result, lastPrepare, prepared, prgLog, masks,
                    sum_of_masks, shareParams >>

CallPRGToDCRTPoly ==
    /\ pc = "primitives"
    /\ \E seed \in SeedInputs, lib \in LibOutcomes, onNull \in NullContextUse :
          lastCall' = PRGToDCRTPolyLib(seed, lib, onNull)
    /\ UNCHANGED << numClients, pc, idx, crs_a, m_keys, m_ecdhKeys, m_data, allPublicKeys,
                    m_clientShares, server_result, lastPrepare, prepared, prgLog, masks,
                    sum_of_masks, shareParams >>

NextCrypto ==
    \/ CallGenerateECDHKeys
    \/ CallSerializePublicKey
    \/ CallDeserializePublicKey
    \/ CallComputeSharedSecret
    \/ CallPRGToDCRTPoly

SpecCrypto == InitCrypto /\ [][NextCrypto]_vars

---------------------------------------------------------------------------
(* PRGToDCRTPoly on its own: any caller, seeds of any length *)

\* largest number of seeds a caller expands
MaxExpansions == 2

InitPRG ==
    /\ numClients = 0
    /\ pc = "prg"
    /\ crs_a = ZeroPoly
    /\ InitCommon

\* PRGToDCRTPoly(seed, cc)
ExpandSeed ==
    /\ pc = "prg"
    /\ Len(prgLog) < MaxExpansions
    /\ \E seed \in SeedInputs :
          prgLog' = Append(prgLog, [seed |-> seed, poly |-> PRGToDCRTPoly(seed)])
    /\ UNCHANGED << numClients, pc, idx, crs_a, m_keys, m_ecdhKeys, m_data, allPublicKeys,
                    m_clientShares, server_result, lastPrepare, prepared, masks,
                    sum_of_masks, shareParams, lastCall >>

NextPRG == ExpandSeed

SpecPRG == InitPRG /\ [][NextPRG]_vars

---------------------------------------------------------------------------
(* main.cpp: next_power_of_2 and the parameter selection of run_experiment *)

\* uint32_t, scaled down to 16 bits: arithmetic is modulo Uint.mod
Uint == [bits |-> 16, mod |-> 65536]

\* the ring dimension run_experiment never goes below
MinRingDimension == 16384

\* a | b
RECURSIVE BitOr(_, _)
BitOr(a, b) ==
    IF a = 0 THEN b
    ELSE IF b = 0 THEN a
    ELSE (IF a % 2 = 1 \/ b % 2 = 1 THEN 1 ELSE 0) + 2 * BitOr(a \div 2, b \div 2)

\* a & b
RECURSIVE BitAnd(_, _)
BitAnd(a, b) ==
    IF a = 0 \/ b = 0 THEN 0
    ELSE (IF a % 2 = 1 /\ b % 2 = 1 THEN 1 ELSE 0) + 2 * BitAnd(a \div 2, b \div 2)

\* n >> k
ShiftRight(n, k) == n \div (2 ^ k)

next_power_of_2(n) ==
    IF n > 0 /\ BitAnd(n, (n - 1) % Uint.mod) = 0 THEN n
    ELSE LET n0 == (n - 1) % Uint.mod
             n1 == BitOr(n0, ShiftRight(n0, 1))
             n2 == BitOr(n1, ShiftRight(n1, 2))
             n3 == BitOr(n2, ShiftRight(n2, 4))
             n4 == BitOr(n3, ShiftRight(n3, 8))
             n5 == BitOr(n4, ShiftRight(n4, 16))
         IN  (n5 + 1) % Uint.mod

\* batchSize and ringDimension as run_experiment chooses them for dataSize
SelectParameters(dataSize) ==
    LET batchSize == next_power_of_2(dataSize)
    IN  [dataSize      |-> dataSize,
         batchSize     |-> batchSize,
         ringDimension |-> IF batchSize < MinRingDimension THEN MinRingDimension
                           ELSE (2 * batchSize) % Uint.mod]

InitDriver ==
    /\ numClients = 0
    /\ pc = "driver"
    /\ crs_a = ZeroPoly
    /\ InitCommon

\* next_power_of_2(n)
CallNextPowerOf2 ==
    /\ pc = "driver"
    /\ \E n \in 0 .. (Uint.mod - 1) :
          lastCall' = Exit("next_power_of_2", n, FALSE, TRUE, 0, next_power_of_2(n))
    /\ pc' = "driver_done"
    /\ UNCHANGED << numClients, idx, crs_a, m_keys, m_ecdhKeys, m_data, allPublicKeys,
                    m_clientShares, server_result, lastPrepare, prepared, prgLog, masks,
                    sum_of_masks, shareParams >>

\* run_experiment(name, numClients, dataSize, ...): the parameters it builds cc from
CallSelectParameters ==
    /\ pc = "driver"
    /\ \E dataSize \in 0 .. (Uint.mod - 1) :
          lastCall' = Exit("run_experiment", dataSize, FALSE, TRUE, 0,
                           SelectParameters(dataSize))
    /\ pc' = "driver_done"
    /\ UNCHANGED << numClients, idx, crs_a, m_keys, m_ecdhKeys, m_data, allPublicKeys,
                    m_clientShares, server_result, lastPrepare, prepared, prgLog, masks,
                    sum_of_masks, shareParams >>

NextDriver == CallNextPowerOf2 \/ CallSelectParameters

SpecDriver == InitDriver /\ [][NextDriver]_vars

---------------------------------------------------------------------------
(* Properties of the masking engine (SpecMask) *)

RECURSIVE SumOver(_, _)
SumOver(S, f) ==
    IF S = {} THEN 0
    ELSE LET x == CHOOSE y \in S : TRUE IN f[x] + SumOver(S \ {x}, f)

\* C1. Mask cancellation: once each of n >= 2 clients (distinct ids, own key
\* pair, one directory holding every client's public key) has generated its
\* mask, the sum of the masks is the zero ring element.
C1_MaskCancellation ==
    (pc = "debug_done" /\ numClients >= 2) => sum_of_masks = ZeroPoly

\* three clients have generated masks, not all of them zero
C1_Witness ==
    /\ pc = "debug_done"
    /\ numClients >= 3
    /\ DOMAIN allPublicKeys = ClientIds
    /\ \E k \in 1 .. Len(masks) : masks[k] # ZeroPoly

C5_PairwiseAgreement ==
    \A i, j \in DOMAIN m_ecdhKeys :
        (i # j /\ pc \in {"debug_masks", "debug_done"}) =>
            LET pk_i == DeserializePublicKey(allPublicKeys[i]).val
                pk_j == DeserializePublicKey(allPublicKeys[j]).val
            IN  /\ ComputeSharedSecret(m_ecdhKeys[i], pk_j).val
                     = ComputeSharedSecret(m_ecdhKeys[j], pk_i).val
                /\ PairPoly(m_ecdhKeys[i], allPublicKeys[j]).val
                     = PairPoly(m_ecdhKeys[j], allPublicKeys[i]).val

\* two clients with different key pairs have both expanded their pair's secret
C5_Witness ==
    /\ pc = "debug_done"
    /\ numClients >= 2
    /\ m_ecdhKeys[0].priv # m_ecdhKeys[1].priv
    /\ ComputeSharedSecret(m_ecdhKeys[0], DeserializePublicKey(allPublicKeys[1]).val).ok
    /\ \E a, b \in 1 .. Len(prgLog) : a # b /\ prgLog[a] = prgLog[b]

---------------------------------------------------------------------------
(* Properties of the round (Spec) *)

RECURSIVE PolySumOver(_, _)
PolySumOver(S, f) ==
    IF S = {} THEN ZeroPoly
    ELSE LET x == CHOOSE y \in S : TRUE IN PolyAdd(f[x], PolySumOver(S \ {x}, f))

\* the error e_i of client i's key generation: b_i = -s_i * a + e_i
KeyGenError(i) == PolyAdd(m_keys[i].pk.b, PolyMul(m_keys[i].sk.s, crs_a))

\* the noise of client i's share: v * e_i + e0 + e1 * s_i + e_star
ShareNoise(i) ==
    LET r == prepared[i].draw
    IN  PolyAdd(PolyAdd(PolyMul(r.v, KeyGenError(i)), r.e0),
                PolyAdd(PolyMul(r.e1, m_keys[i].sk.s), r.e_star))

\* C2. End-to-end ring identity: once every client's share has been collected
\* exactly once, the polynomial aggregateShares computes, sum c0_i + sum
\* d_masked_i, equals sum (c0_i + d_i), which is sum encode(x_i) plus the
\* clients' noise terms; no mask term remains.
C2_EndToEndIdentity ==
    pc = "done" =>
        /\ server_result.finalPoly =
               PolySumOver(ClientIds,
                   [i \in ClientIds |-> PolyAdd(prepared[i].c0, prepared[i].d)])
        /\ server_result.finalPoly =
               PolySumOver(ClientIds,
                   [i \in ClientIds |-> PolyAdd(encodeVector(m_data[i]), ShareNoise(i))])

\* three clients' shares, each with a non-zero mask, were collected once each
\* and aggregated
C2_Witness ==
    /\ pc = "done"
    /\ numClients = 3
    /\ Len(m_clientShares) = 3
    /\ \A i \in ClientIds :
          /\ prepared[i].mask # ZeroPoly
          /\ m_clientShares[i + 1] =
                [c0 |-> prepared[i].c0, d_masked |-> PolyAdd(prepared[i].d, prepared[i].mask)]

\* the samples client i's key generation drew (the draws differ in s)
KeyGenDrawOf(i) == CHOOSE r \in KeyGenDraws : r.s = m_keys[i].sk.s

\* C17. Fused encrypt + partial decrypt: for a key pair KeyGenSingle produced on
\* CRS a (pk.a = a, pk.b = -s*a + e) and any plaintext m, Encrypt returns
\* c0 = v*b + m + e0 and c1 = d = (v*a + e1)*s + e*, so c0 + d - m is exactly
\* v*e + e0 + e1*s + e*: every term containing a cancels, and the second
\* component emitted is d, not the raw v*a + e1.
C17_FusedEncrypt ==
    \A i \in DOMAIN prepared :
        LET r  == prepared[i].draw
            k  == KeyGenDrawOf(i)
            m  == encodeVector(m_data[i])
            pk == m_keys[i].pk
        IN  /\ pk.a = crs_a
            /\ pk.b = PolyAdd(PolyNegate(PolyMul(k.s, crs_a)), k.e)
            /\ prepared[i].c0 = PolyAdd(PolyAdd(PolyMul(r.v, pk.b), m), r.e0)
            /\ prepared[i].d =
                   PolyAdd(PolyMul(PolyAdd(PolyMul(r.v, crs_a), r.e1), k.s), r.e_star)
            /\ PolySub(PolyAdd(prepared[i].c0, prepared[i].d), m) =
                   PolyAdd(PolyAdd(PolyMul(r.v, k.e), r.e0),
                           PolyAdd(PolyMul(r.e1, k.s), r.e_star))

\* a client has encrypted a non-zero plaintext under a key with non-zero e, and
\* its d differs from the raw v*a + e1
C17_Witness ==
    \E i \in DOMAIN prepared :
        /\ encodeVector(m_data[i]) # ZeroPoly
        /\ KeyGenDrawOf(i).e # ZeroPoly
        /\ PolyMul(prepared[i].draw.v, crs_a) # ZeroPoly
        /\ prepared[i].d # PolyAdd(PolyMul(prepared[i].draw.v, crs_a), prepared[i].draw.e1)

\* the ordering facts of a round that hold in every state
RoundOrder ==
    /\ \A i \in DOMAIN allPublicKeys :
          /\ i \in DOMAIN m_ecdhKeys /\ i \in DOMAIN m_keys
          /\ m_ecdhKeys[i] # NullKey
          /\ allPublicKeys[i] = getECDHPublicKey(m_ecdhKeys[i]).val
    /\ lastPrepare.status # "none" => DOMAIN allPublicKeys = ClientIds
    /\ Len(m_clientShares) = Cardinality(DOMAIN prepared)
    /\ DOMAIN prepared = 0 .. (Len(m_clientShares) - 1)
    /\ Len(m_clientShares) <= numClients
    /\ server_result.status # "none" =>
          /\ server_result.collected = numClients
          /\ Len(m_clientShares) = numClients
          /\ DOMAIN prepared = ClientIds

\* the ordering facts of a round that hold of every step
RoundStepOrder ==
    /\ (lastPrepare' # lastPrepare) =>
          (/\ DOMAIN allPublicKeys = ClientIds
           /\ server_result.status = "none"
           /\ (lastPrepare'.status = "ok") =>
                 (/\ lastPrepare'.client = Len(m_clientShares)
                  /\ m_clientShares' = Append(m_clientShares, lastPrepare'.share)))
    /\ (lastPrepare = lastPrepare') => (m_clientShares' = m_clientShares)
    /\ (pc # "keygen" \/ lastPrepare.status # "none") => (allPublicKeys' = allPublicKeys)

\* C21. Round ordering in the driver: each client's generateKeys completes
\* before its public key is read into the directory; the directory holds all n
\* clients' keys before the first prepareShareForServer and is not modified
\* afterwards; each client's share is collected exactly once (one share per
\* prepareShareForServer, in client order); getFinalResult is invoked only after
\* all n shares have been collected.
C21_RoundOrdering == []RoundOrder /\ [][RoundStepOrder]_vars

\* a round of three clients ran to its end: three shares, one per client, then
\* the final result
C21_Witness ==
    /\ pc = "done"
    /\ numClients = 3
    /\ Len(m_clientShares) = 3
    /\ DOMAIN allPublicKeys = 0 .. 2
    /\ server_result.status = "ok"
    /\ server_result.collected = 3
    /\ lastPrepare.client = 2

---------------------------------------------------------------------------
(* Properties of the Server (SpecServer) *)

\* C3. Order-independence: whatever shares were collected, collecting them in
\* any other order gives the same aggregated polynomial.
C3_OrderIndependence ==
    \A perm \in Permutations(1 .. Len(m_clientShares)) :
        aggregateShares([k \in 1 .. Len(m_clientShares) |-> m_clientShares[perm[k]]])
            = aggregateShares(m_clientShares)

\* three pairwise different shares were collected and aggregated
C3_Witness ==
    /\ Len(m_clientShares) = 3
    /\ Cardinality({m_clientShares[k] : k \in 1 .. 3}) = 3
    /\ m_clientShares[1].c0 # m_clientShares[1].d_masked
    /\ server_result.status = "ok"
    /\ server_result.collected = 3

\* C8. EmptyAggregate: getFinalResult on a server that has collected no share
\* fails with an error and returns no result.
C8_EmptyAggregateFails ==
    (server_result.status # "none" /\ server_result.collected = 0)
        => (server_result.status = "error" /\ server_result.finalPoly = ZeroPoly)

\* getFinalResult was called on the empty server
C8_Witness ==
    /\ m_clientShares = << >>
    /\ server_result.status = "error"
    /\ server_result.collected = 0

\* what every collectShare call does to the accumulator
CollectStep ==
    (shareParams' # shareParams) =>
        (/\ Len(m_clientShares') = Len(m_clientShares) + 1
         /\ SubSeq(m_clientShares', 1, Len(m_clientShares)) = m_clientShares
         /\ m_clientShares'[Len(m_clientShares')] \in ShareInputs
         /\ server_result' = server_result)

\* after k calls the accumulator holds k shares, and a result computed from it
\* is the sum over all of them, equal ones counted as often as collected
CollectedAll ==
    /\ Len(m_clientShares) = Len(shareParams)
    /\ server_result.status = "ok" =>
          server_result.finalPoly =
              PolySumOver(1 .. server_result.collected,
                  [k \in 1 .. server_result.collected |->
                      PolyAdd(m_clientShares[k].c0, m_clientShares[k].d_masked)])

\* C22. collectShare appends and nothing else: each call increases the
\* accumulator length by exactly one, stores the given share as the last
\* element and leaves the earlier shares unchanged; nothing is validated or
\* de-duplicated (a share collected twice is summed twice); after k calls the
\* accumulator holds exactly k shares.
C22_CollectShareAppends == []CollectedAll /\ [][CollectStep]_vars

\* the same share was collected twice and the result counts it twice
C22_Witness ==
    /\ Len(m_clientShares) = 2
    /\ m_clientShares[1] = m_clientShares[2]
    /\ server_result.status = "ok"
    /\ server_result.collected = 2
    /\ server_result.finalPoly # PolyAdd(m_clientShares[1].c0, m_clientShares[1].d_masked)
    /\ server_result.finalPoly # ZeroPoly

\* C15. Accumulator lifetime: the accumulator is empty when the Server is
\* created and is consumed by the aggregation step: when getFinalResult returns
\* a result the shares it aggregated are no longer in the accumulator, so a later
\* getFinalResult does not aggregate them again.
C15_AccumulatorConsumed ==
    /\ m_clientShares = << >>
    /\ [][(server_result' # server_result /\ server_result'.status = "ok")
              => m_clientShares' = << >>]_vars

---------------------------------------------------------------------------
(* Properties of the round under any directory view (SpecDirectory) *)

\* C9. MissingPeer: prepareShareForServer called with a directory that lacks the
\* entry of a participating client (possibly the caller's own) fails with an error.
C9_MissingPeerFails ==
    (lastPrepare.status # "none" /\ \E j \in ClientIds : j \notin DOMAIN allPublicKeys)
        => lastPrepare.status = "error"

\* a peer entry of client i's directory does not parse
UnparsablePeer(i) ==
    \E j \in (DOMAIN allPublicKeys) \ {i} : ~DeserializePublicKey(allPublicKeys[j]).ok

\* C10. Deserialization failure emits no partial result: when a peer entry of
\* the directory does not parse, prepareShareForServer fails and returns no
\* share, the accumulator keeps exactly the shares collected before, the
\* failing client's share is never collected and finalize is not reached.
C10_NoPartialResult ==
    /\ \A i \in DOMAIN prepared : ~UnparsablePeer(i)
    /\ (lastPrepare.status # "none" /\ UnparsablePeer(lastPrepare.client)) =>
          /\ lastPrepare.status = "error"
          /\ lastPrepare.share = NoShare
          /\ pc = "aborted"
          /\ Len(m_clientShares) = lastPrepare.client
          /\ \A k \in 1 .. Len(m_clientShares) :
                m_clientShares[k] = [c0 |-> prepared[k - 1].c0,
                                     d_masked |-> PolyAdd(prepared[k - 1].d, prepared[k - 1].mask)]
          /\ server_result.status = "none"

\* a client failed on an unparsable peer entry after another client's share
\* had been collected
C10_Witness ==
    /\ pc = "aborted"
    /\ lastPrepare.status = "error"
    /\ lastPrepare.client >= 1
    /\ UnparsablePeer(lastPrepare.client)
    /\ Len(m_clientShares) >= 1

\* C14. Single-client edge case: when the directory holds only the caller's own
\* id, GenerateMask returns the zero ring element and the d_masked of the
\* emitted share equals the unmasked share d.
C14_SingleClientMaskIsZero ==
    \A i \in DOMAIN prepared :
        DOMAIN allPublicKeys = {i} =>
            /\ GenerateMask(i, m_ecdhKeys[i], allPublicKeys).ok
            /\ GenerateMask(i, m_ecdhKeys[i], allPublicKeys).val = ZeroPoly
            /\ prepared[i].mask = ZeroPoly
            /\ m_clientShares[i + 1].d_masked = prepared[i].d

\* a client whose directory held only its own id has emitted a share with a
\* non-zero d
C14_Witness ==
    \E i \in DOMAIN prepared :
        /\ DOMAIN allPublicKeys = {i}
        /\ prepared[i].d # ZeroPoly
        /\ m_clientShares[i + 1].d_masked = prepared[i].d
        /\ DeserializePublicKey(allPublicKeys[i]).ok

\* C18. Share construction: the share prepareShareForServer returns has c0
\* equal to Encrypt's c0, unmasked, and d_masked equal to Encrypt's second
\* component plus exactly the mask GenerateMask returns for the client's own
\* id, its ECDH keys and the given directory; the call changes neither the
\* client's keys nor its data.
C18_ShareConstruction ==
    [][(lastPrepare' # lastPrepare /\ lastPrepare'.status = "ok") =>
          LET i    == lastPrepare'.client
              r    == prepared'[i].draw
              ct   == Encrypt(m_keys[i].pk, m_keys[i].sk, encodeVector(m_data'[i]),
                              r.v, r.e0, r.e1, r.e_star)
              mask == GenerateMask(i, m_ecdhKeys[i], allPublicKeys)
          IN  /\ mask.ok
              /\ lastPrepare'.share.c0 = ct.c0
              /\ lastPrepare'.share.d_masked = PolyAdd(ct.c1, mask.val)
              /\ m_keys' = m_keys
              /\ m_ecdhKeys' = m_ecdhKeys
              /\ m_data'[i] = r.x
              /\ allPublicKeys' = allPublicKeys]_vars

\* a client with a peer has returned a share whose mask is not zero
C18_Witness ==
    /\ lastPrepare.status = "ok"
    /\ lastPrepare.client >= 1
    /\ prepared[lastPrepare.client].mask # ZeroPoly
    /\ lastPrepare.share.c0 = prepared[lastPrepare.client].c0
    /\ lastPrepare.share.d_masked # prepared[lastPrepare.client].d

---------------------------------------------------------------------------
(* Properties of the Server under any ring parameters (SpecParams) *)

\* C11. Ring-parameter mismatch on finalize: getFinalResult(cc, dataSize) fails
\* with an error and returns no vector whenever some collected share's ring
\* parameters differ from those of cc.
C11_ParameterMismatchFails ==
    (/\ server_result.status # "none"
     /\ \E k \in 1 .. server_result.collected : shareParams[k] # CcParams)
        => server_result.status = "error"

---------------------------------------------------------------------------
(* Properties of the primitives under any library outcome (SpecCrypto) *)

\* C12. CryptoPrimitiveFailure: whenever a crypto-library call made by
\* GenerateECDHKeys, SerializePublicKey, DeserializePublicKey,
\* ComputeSharedSecret or PRGToDCRTPoly reports failure, the operation ends in
\* an error and returns no value.
C12_CryptoFailureIsError == lastCall.failed => ~lastCall.ok

\* C13. Handle release: at every exit of GenerateECDHKeys, SerializePublicKey,
\* ComputeSharedSecret and PRGToDCRTPoly, normal or by an exception (an
\* allocation failure included), no context or buffer acquired inside the
\* function is still held.
C13_HandlesReleased ==
    lastCall.fn \in {"GenerateECDHKeys", "SerializePublicKey", "ComputeSharedSecret",
                     "PRGToDCRTPoly"}
        => lastCall.handles = 0

---------------------------------------------------------------------------
(* Properties of the mask PRG (SpecPRG) *)

\* byte k of a seed, a seed that ends before k read as zero-padded
SeedByte(seed, k) == IF k <= Len(seed) THEN seed[k] ELSE 0

\* word number n (from 0) of the keystream under the first KeyLen seed bytes
SeedWord(seed, n) == KeystreamWord([k \in 1 .. KeyLen |-> SeedByte(seed, k)], 0, n)

\* C19. PRG coefficient layout and reduction: PRGToDCRTPoly generates T*N
\* keystream words and sets coefficient j of tower t to word[t*N + j] mod q_t;
\* hence every coefficient of tower t is less than q_t and no word is used by
\* two towers.
C19_PRGLayout ==
    \A a \in 1 .. Len(prgLog) :
        LET seed == prgLog[a].seed
            poly == prgLog[a].poly
        IN  /\ Cardinality(DOMAIN random_uints(seed)) = NumTowers * RingDim
            /\ DOMAIN poly = 1 .. NumTowers
            /\ \A t \in 0 .. (NumTowers - 1) :
                  /\ DOMAIN poly[t + 1] = 1 .. RingDim
                  /\ \A j \in 0 .. (RingDim - 1) :
                        /\ poly[t + 1][j + 1] = SeedWord(seed, t * RingDim + j) % Moduli[t + 1]
                        /\ poly[t + 1][j + 1] < Moduli[t + 1]
                        /\ \A u \in 0 .. (NumTowers - 1), i \in 0 .. (RingDim - 1) :
                              u # t => u * RingDim + i # t * RingDim + j

\* a seed was expanded whose words for the first and the last tower differ,
\* one of them at least as large as its tower's modulus
C19_Witness ==
    \E a \in 1 .. Len(prgLog) :
        /\ prgLog[a].poly # ZeroPoly
        /\ SeedWord(prgLog[a].seed, 0) # SeedWord(prgLog[a].seed, (NumTowers - 1) * RingDim)
        /\ SeedWord(prgLog[a].seed, (NumTowers - 1) * RingDim) >= Moduli[NumTowers]
        /\ prgLog[a].poly[1][1] # prgLog[a].poly[NumTowers][1]

\* C20. PRG keying: the cipher key is exactly the first 32 (here KeyLen) bytes
\* of the seed, the nonce all zeros, so two seeds that agree on these bytes
\* give equal ring elements; a shorter seed is accepted and zero-padded.
C20_PRGKeying ==
    \A a, b \in 1 .. Len(prgLog) :
        /\ IsPoly(prgLog[a].poly)
        /\ (\A k \in 1 .. KeyLen : SeedByte(prgLog[a].seed, k) = SeedByte(prgLog[b].seed, k))
              => prgLog[a].poly = prgLog[b].poly

\* a seed shorter than the key and a seed longer than the key, equal on the
\* key bytes after padding and different after them, were both expanded
C20_Witness ==
    /\ Len(prgLog) >= 2
    /\ Len(prgLog[1].seed) < KeyLen
    /\ Len(prgLog[2].seed) > KeyLen
    /\ prgLog[1].seed # << >>
    /\ prgLog[1].seed[1] # 0
    /\ prgLog[2].seed[KeyLen + 1] # 0
    /\ \A k \in 1 .. KeyLen : SeedByte(prgLog[1].seed, k) = SeedByte(prgLog[2].seed, k)
    /\ prgLog[1].poly = prgLog[2].poly
    /\ prgLog[1].poly # ZeroPoly

---------------------------------------------------------------------------
(* Properties of the driver's parameter selection (SpecDriver) *)

\* the powers of two up to 2^bits, the last one being 0 modulo Uint.mod
PowersOfTwo == { 2 ^ k : k \in 0 .. Uint.bits }

\* the smallest power of two that is at least n
SmallestPowerAtLeast(n) ==
    CHOOSE p \in PowersOfTwo : p >= n /\ \A q \in PowersOfTwo : q >= n => p <= q

\* C23. next_power_of_2(n) returns, for every unsigned n (n = 0 and n above
\* half the range included), the smallest power of two >= n, modulo 2^bits, and
\* n itself when n is a power of two.
C23_NextPowerOfTwo ==
    lastCall.fn = "next_power_of_2" =>
        /\ lastCall.val = SmallestPowerAtLeast(lastCall.arg) % Uint.mod
        /\ lastCall.arg \in PowersOfTwo => lastCall.val = lastCall.arg

\* C24. Parameter selection in the driver: for every dataSize given to
\* run_experiment the ring dimension N is a power of two with N >= 16384, and
\* dataSize <= batchSize <= N/2 with batchSize = next_power_of_2(dataSize).
C24_ParameterSelection ==
    lastCall.fn = "run_experiment" =>
        /\ lastCall.val.ringDimension \in PowersOfTwo
        /\ lastCall.val.ringDimension >= MinRingDimension
        /\ lastCall.val.batchSize = next_power_of_2(lastCall.arg)
        /\ lastCall.arg <= lastCall.val.batchSize
        /\ lastCall.val.batchSize <= lastCall.val.ringDimension \div 2

---------------------------------------------------------------------------
(* Properties of repeated share preparation (SpecReuse) *)

\* GenerateMask called now, with the arguments of client i's last share, returns
\* the mask of that share
MaskRepeatable ==
    \A i \in DOMAIN prepared :
        /\ GenerateMask(i, m_ecdhKeys[i], allPublicKeys).ok
        /\ GenerateMask(i, m_ecdhKeys[i], allPublicKeys).val = prepared[i].mask

\* a client that prepares another share applies the mask of its previous one
MaskReused ==
    (lastPrepare' # lastPrepare /\ lastPrepare'.client \in DOMAIN prepared) =>
        (/\ masks'[Len(masks')] = prepared[lastPrepare'.client].mask
         /\ PolySub(lastPrepare'.share.d_masked, prepared'[lastPrepare'.client].d)
               = prepared[lastPrepare'.client].mask)

=============================================================================
